---- MODULE Spec2Model ----
(***************************************************************************)
(* A model of lunar_tools: the WebCam capture service (cam.py) and the     *)
(* Renderer (gl.py).                                                       *)
(*                                                                         *)
(* Python values are modelled as follows: None is the empty tuple <<>>,    *)
(* an optional value v is <<v>>; an exception leaving a call is the field  *)
(* exc of the object record (NoExc when the call returned normally).       *)
(***************************************************************************)
EXTENDS Integers, Sequences, FiniteSets, TLC

VARIABLES
    app,    \* a function of the module applied on its own: its argument,
            \* and its result once it has returned
    os,     \* what get_os_type() returns on this machine
    rend,   \* the Renderer object, the GL/CUDA resources it owns, and the
            \* outcome of the latest call made on it
    wc,     \* the WebCam object and the capture handles opened through it
    good,   \* the video devices that deliver frames
    failsLeft,  \* reads of a delivering device that may still fail
    tpc,    \* where the capture thread is in threader_runfunc_cam
    timg,   \* the capture thread's local img
    rimg,   \* what the latest self.cam.read() returned (get_raw_image's img)
    mpc,    \* where the consumer is: constructing, using, releasing
    got,    \* what the latest get_img call returned
    lastRaw,    \* history: the raw frame of the latest publish (None before it)
    recoveries, \* history: recoveries completed, counted up to RecCap
    stopAt,     \* history: where the capture thread was when release() began
    recLog      \* history: the steps of the latest recovery, in order

NoExc == "none"
None == <<>>

(***************************************************************************)
(* Bounds of the model.                                                    *)
(***************************************************************************)
MaxRenders == 2     \* render calls made on one Renderer
MaxEvents == 2      \* SDL events pending when one gl_step polls
NumDev == 2         \* video devices /dev/video0 .. that may exist
NumFrames == 2      \* distinct raw frames a device delivers
MaxFails == 2       \* failed reads of a device that delivers frames
RecCap == 2         \* recoveries counted
TexH == 2           \* height of the Renderer's window and texture
TexW == 3           \* width of the Renderer's window and texture
FrameH == 5         \* shape_hw[0]
FrameW == 7         \* shape_hw[1]

OsTypes == {"Ubuntu", "MacOS", "Other"}

\* An exception e leaves the call made on object o.
Raise(o, e) == [o EXCEPT !.exc = e]

(***************************************************************************)
(* cam.py: frames.  An image is a sequence of rows, a row a sequence of    *)
(* pixels, a pixel a sequence of three uint8 channels.                     *)
(***************************************************************************)
MinImgSize == 100

Devices == 0..(NumDev - 1)
CamIds == {-1} \cup Devices

\* np.zeros((shape_hw[0], shape_hw[1], 3), dtype=np.uint8)
\* The initial frame with height and width exchanged.
ZerosWH == [r \in 1..FrameW |-> [c \in 1..FrameH |-> <<0, 0, 0>>]]

Zeros == [r \in 1..FrameH |-> [c \in 1..FrameW |-> <<0, 0, 0>>]]

\* The v-th raw frame a device delivers, of the configured shape.
RawFrame(v) ==
    [r \in 1..FrameH |-> [c \in 1..FrameW |->
        <<(40 * v + c) % 256, (40 * v + 100 + r) % 256, (40 * v + 200 + r + c) % 256>>]]
RawFrames == {RawFrame(v) : v \in 1..NumFrames}

\* An image too small to be a frame.
SmallImg == << << <<9, 8, 7>> >> >>

\* img.size
ImgSize(img) == IF Len(img) = 0 THEN 0 ELSE Len(img) * Len(img[1]) * 3

Reverse(s) == [i \in 1..Len(s) |-> s[Len(s) + 1 - i]]

\* np.flip(img, 0): the rows reversed.
FlipRows(img) == Reverse(img)

\* np.flip(img, axis=2) and np.flip(img, 1)
FlipChannels(img) == [r \in 1..Len(img) |-> [c \in 1..Len(img[r]) |-> Reverse(img[r][c])]]
FlipColumns(img) == [r \in 1..Len(img) |-> Reverse(img[r])]

\* WebCam.process_raw_image
process_raw_image(w, img) ==
    LET a == IF w.shift_colors THEN FlipChannels(img) ELSE img
    IN  IF w.do_mirror THEN FlipColumns(a) ELSE a

\* WebCam.get_img
get_img(w) == w.img_last

(***************************************************************************)
(* cam.py: capture handles.  hopen holds the handles that are open, hdev   *)
(* the device of every handle that is open or held in self.cam.  cam = 0   *)
(* stands for the attribute not being set yet.                             *)
(***************************************************************************)
NewHandle(w) == CHOOSE h \in 1..(Cardinality(w.hopen) + 2) : h \notin w.hopen \cup {w.cam}

Restrict(f, S) == [x \in S |-> f[x]]

\* handle.release() of cv2.VideoCapture
ReleaseHandle(w, h) ==
    [w EXCEPT !.hopen = @ \ {h},
              !.hdev = Restrict(@, (w.hopen \ {h}) \cup ({w.cam} \ {0}))]

\* self.cam = cv2.VideoCapture(dev)
OpenCam(w, dev) ==
    LET h == NewHandle(w)
    IN  [w EXCEPT !.cam = h, !.hopen = @ \cup {h},
                  !.hdev = Restrict((h :> dev) @@ @, w.hopen \cup {h})]

\* cv2.VideoCapture(dev).release()
OpenAndRelease(w, dev) ==
    LET h == NewHandle(w)
        w1 == [w EXCEPT !.hopen = @ \cup {h}, !.hdev = (h :> dev) @@ @]
    IN  ReleaseHandle(w1, h)

\* self.cam.release()
cam_release(w) == ReleaseHandle(w, w.cam)

\* WebCam.set_cap_props
set_cap_props(w) == [w EXCEPT !.configured = (@ \cap (w.hopen \cup {w.cam})) \cup {w.cam}]

\* Whether self.cam.read() can deliver a frame at all: the handle is open
\* and on a device that delivers.
CanDeliver(w) == w.cam \in w.hopen /\ w.hdev[w.cam] \in good

\* What self.cam.read() may return as img.
ReadOutcomes(w) ==
    IF ~CanDeliver(w) THEN {None}
    ELSE RawFrames \cup (IF failsLeft > 0 THEN {None, SmallImg} ELSE {})

\* get_raw_image without the size floor.
get_raw_image_nofloor(img) == img

\* WebCam.get_raw_image, given what self.cam.read() returned
get_raw_image(img) ==
    IF img = None \/ ImgSize(img) < MinImgSize THEN None ELSE img

(***************************************************************************)
(* cam.py: release and device acquisition.  who names the thread making    *)
(* the call: "ctor" inside __init__ (self.thread is not assigned yet),     *)
(* "capture" for the capture thread, "consumer" otherwise.                 *)
(***************************************************************************)
\* Line 77 of release
release_signal(w) == [w EXCEPT !.threader_active = FALSE]

\* Line 78 of release: the exception self.thread.join() raises at once, if
\* any; otherwise the call blocks until the thread has ended.
join_error(w, who) ==
    IF w.thread = "unset" THEN "AttributeError"
    ELSE IF who = "capture" THEN "RuntimeError: cannot join current thread"
    ELSE NoExc

\* Lines 79-81 of release
release_device(w) == OpenAndRelease(cam_release(w), w.cam_id)

\* WebCam.release as init_ubuntu calls it, from a thread that is never a
\* consumer waiting in join.
release(w, who) ==
    LET w1 == release_signal(w)
        e == join_error(w1, who)
    IN  IF e # NoExc THEN Raise(w1, e) ELSE release_device(w1)

RemoveFirst(s, x) ==
    LET i == CHOOSE k \in 1..Len(s) : s[k] = x /\ \A j \in 1..(k - 1) : s[j] # x
    IN  [k \in 1..(Len(s) - 1) |-> IF k < i THEN s[k] ELSE s[k + 1]]

\* The `while True` of init_ubuntu (lines 57-70).  tried logs the devices
\* configured and read.  A candidate that stays the same and delivers no
\* frame is retried for ever: the call does not return ("Diverges").
RECURSIVE init_loop(_, _, _, _)
init_loop(w, device_paths, device_ptr, who) ==
    LET w1 == release(w, who)
        next == w.cam_id = -1 /\ Len(device_paths) > 1
        paths2 == IF next THEN RemoveFirst(device_paths, device_ptr) ELSE device_paths
        ptr2 == IF next THEN paths2[1] ELSE device_ptr
        w2 == [set_cap_props(OpenCam(w1, ptr2)) EXCEPT !.tried = Append(@, ptr2)]
    IN  IF w1.exc # NoExc THEN w1
        ELSE IF CanDeliver(w2) THEN [w2 EXCEPT !.device_ptr = ptr2]
        ELSE IF w.cam_id = -1 /\ Len(paths2) > 1
        THEN init_loop(w2, paths2, ptr2, who)
        ELSE Raise(w2, "Diverges")

\* WebCam.init_ubuntu; device_paths is what glob returns.
init_ubuntu(w, device_paths, who) ==
    LET w0 == [w EXCEPT !.enumerated = device_paths]
    IN  IF Len(device_paths) = 0 THEN Raise(w0, "ValueError: No cameras found")
        ELSE LET device_ptr == IF w.cam_id = -1 THEN device_paths[1] ELSE w.cam_id
             IN  init_loop(OpenCam(w0, device_ptr), device_paths, device_ptr, who)

\* WebCam.init_mac
init_mac(w) == OpenCam(w, w.cam_id)

\* WebCam.smart_init
smart_init(w, ostype, device_paths, who) ==
    LET w1 == IF ostype = "Ubuntu" THEN init_ubuntu(w, device_paths, who)
              ELSE IF ostype = "MacOS" THEN init_mac(w)
              ELSE Raise(w, "NotImplementedError")
    IN  IF w1.exc # NoExc THEN w1 ELSE set_cap_props(w1)

\* WebCam.__init__: lines 33-39, the fields set before smart_init.
WebCamFields(id) ==
    [do_mirror |-> FALSE, shift_colors |-> TRUE, cam_id |-> id, img_last |-> Zeros,
     device_ptr |-> 0, threader_active |-> FALSE, thread |-> "unset",
     cam |-> 0, hopen |-> {}, hdev |-> <<>>, configured |-> {},
     enumerated |-> <<>>, tried |-> <<>>, exc |-> NoExc]

\* WebCam.__init__: lines 40-44
WebCamNew(w, ostype, device_paths) ==
    LET w1 == smart_init(w, ostype, device_paths, "ctor")
    IN  IF w1.exc # NoExc THEN w1
        ELSE [w1 EXCEPT !.threader_active = TRUE, !.thread = "running"]

\* The device paths glob may return: /dev/video0 .. /dev/video(n-1).
DevicePaths == {[i \in 1..n |-> i - 1] : n \in 0..NumDev}

camvars == <<wc, good, failsLeft, tpc, timg, rimg, mpc, got, lastRaw, recoveries, stopAt,
             recLog>>

\* The state before the WebCam constructor reaches smart_init.
CamInit ==
    /\ wc \in {WebCamFields(id) : id \in CamIds}
    /\ good \in SUBSET Devices
    /\ failsLeft \in 0..MaxFails
    /\ tpc = "none"
    /\ timg = None
    /\ mpc = "new"
    /\ got = None
    /\ lastRaw = None
    /\ rimg = None
    /\ recoveries = 0
    /\ stopAt = "none"
    /\ recLog = <<>>

\* No WebCam is in use.
CamIdle ==
    /\ wc = WebCamFields(0)
    /\ good = {}
    /\ failsLeft = 0
    /\ tpc = "none"
    /\ timg = None
    /\ mpc = "unused"
    /\ got = None
    /\ lastRaw = None
    /\ rimg = None
    /\ recoveries = 0
    /\ stopAt = "none"
    /\ recLog = <<>>

(***************************************************************************)
(* The consumer: WebCam(...), get_img(), release().                        *)
(***************************************************************************)
\* WebCam(cam_id): the rest of the constructor, the thread started at its
\* end.
Construct ==
    /\ mpc = "new"
    /\ \E device_paths \in DevicePaths :
          LET w == WebCamNew(wc, os, device_paths)
          IN  /\ wc' = w
              /\ mpc' = IF w.exc # NoExc THEN "failed" ELSE "idle"
              /\ tpc' = IF w.exc # NoExc THEN "none" ELSE "check"
    /\ UNCHANGED <<app, os, rend, good, failsLeft, timg, got, lastRaw, rimg, recoveries, stopAt, recLog>>

\* cam.get_img(), by any reader, at any time once the object exists
GetImg ==
    /\ mpc \in {"idle", "join", "device", "released"}
    /\ got' = get_img(wc)
    /\ UNCHANGED <<app, os, rend, wc, good, failsLeft, tpc, timg, mpc, lastRaw, rimg,
                 recoveries, stopAt, recLog>>

\* cam.release() by the consumer, line 77
ReleaseSignal ==
    /\ mpc = "idle"
    /\ wc' = release_signal(wc)
    /\ mpc' = "join"
    /\ stopAt' = tpc
    /\ UNCHANGED <<app, os, rend, good, failsLeft, tpc, timg, got, lastRaw, rimg, recoveries, recLog>>

\* release() that does not wait for the capture thread.
ReleaseNoJoin ==
    /\ mpc = "join"
    /\ mpc' = "device"
    /\ UNCHANGED <<app, os, rend, wc, good, failsLeft, tpc, timg, got, lastRaw, rimg,
                 recoveries, stopAt, recLog>>

\* line 78: join returns once the capture thread has ended
ReleaseJoin ==
    /\ mpc = "join"
    /\ join_error(wc, "consumer") = NoExc
    /\ wc.thread = "finished"
    /\ mpc' = "device"
    /\ UNCHANGED <<app, os, rend, wc, good, failsLeft, tpc, timg, got, lastRaw, rimg,
                 recoveries, stopAt, recLog>>

\* lines 79-81
ReleaseDevice ==
    /\ mpc = "device"
    /\ wc' = release_device(wc)
    /\ mpc' = "released"
    /\ UNCHANGED <<app, os, rend, good, failsLeft, tpc, timg, got, lastRaw, rimg, recoveries,
                 stopAt, recLog>>

(***************************************************************************)
(* The capture thread: threader_runfunc_cam.                               *)
(***************************************************************************)
\* line 107: the loop test
ThreadCheck ==
    /\ tpc = "check"
    /\ IF wc.threader_active
       THEN tpc' = "read" /\ wc' = wc
       ELSE tpc' = "done" /\ wc' = [wc EXCEPT !.thread = "finished"]
    /\ UNCHANGED <<app, os, rend, good, failsLeft, timg, mpc, got, lastRaw, rimg, recoveries,
                 stopAt, recLog>>

\* line 108: img = self.get_raw_image()
ThreadRead ==
    /\ tpc = "read"
    /\ \E img \in ReadOutcomes(wc) :
          /\ rimg' = img
          /\ timg' = get_raw_image(img)
          /\ failsLeft' = IF CanDeliver(wc) /\ img \notin RawFrames
                          THEN failsLeft - 1 ELSE failsLeft
          /\ tpc' = IF get_raw_image(img) = None THEN "repair" ELSE "publish"
    /\ recLog' = IF Len(recLog) = 3 THEN Append(recLog, "read") ELSE recLog
    /\ UNCHANGED <<app, os, rend, wc, good, mpc, got, lastRaw, recoveries, stopAt>>

\* The repair without self.cam.release(): the failed handle stays open.
repair_release_leak(w) == OpenAndRelease(w, w.device_ptr)

\* lines 111-112: release the handle, and a fresh one on device_ptr
repair_release(w) == OpenAndRelease(cam_release(w), w.device_ptr)

ThreadRepairRelease ==
    /\ tpc = "repair"
    /\ wc' = repair_release(wc)
    /\ tpc' = "reinit"
    /\ recLog' = <<"release">>
    /\ UNCHANGED <<app, os, rend, good, failsLeft, timg, mpc, got, lastRaw, rimg, recoveries, stopAt>>

\* The recovery without the acquisition: line 113 left out.
ThreadRepairNoInit ==
    /\ tpc = "reinit"
    /\ tpc' = "cooldown"
    /\ UNCHANGED <<app, os, rend, wc, good, failsLeft, timg, mpc, got, lastRaw, rimg, recoveries,
                   stopAt, recLog>>

\* line 113: self.smart_init(); an exception ends the thread
ThreadRepairInit ==
    /\ tpc = "reinit"
    /\ \E device_paths \in DevicePaths :
          LET w == smart_init(wc, os, device_paths, "capture")
          IN  IF w.exc # NoExc
              THEN wc' = [w EXCEPT !.thread = "finished"] /\ tpc' = "done"
              ELSE wc' = w /\ tpc' = "cooldown"
    /\ recLog' = Append(recLog, "acquire")
    /\ UNCHANGED <<app, os, rend, good, failsLeft, timg, mpc, got, lastRaw, rimg, recoveries, stopAt>>

\* line 114: time.sleep(1)
ThreadCooldown ==
    /\ tpc = "cooldown"
    /\ tpc' = "sleep"
    /\ recLog' = Append(recLog, "cooldown")
    /\ recoveries' = IF recoveries < RecCap THEN recoveries + 1 ELSE recoveries
    /\ UNCHANGED <<app, os, rend, wc, good, failsLeft, timg, mpc, got, lastRaw, rimg, stopAt>>

\* Publishing the raw frame, the post-processing left out.
publish_raw(w, img) == [w EXCEPT !.img_last = img]

\* line 116: self.img_last = self.process_raw_image(img)
publish(w, img) == [w EXCEPT !.img_last = process_raw_image(w, img)]

ThreadPublish ==
    /\ tpc = "publish"
    /\ wc' = publish(wc, timg)
    /\ lastRaw' = timg
    /\ tpc' = "sleep"
    /\ UNCHANGED <<app, os, rend, good, failsLeft, timg, mpc, got, rimg, recoveries, stopAt, recLog>>

\* line 117: time.sleep(self.sleep_time_thread)
ThreadSleep ==
    /\ tpc = "sleep"
    /\ tpc' = "check"
    /\ UNCHANGED <<app, os, rend, wc, good, failsLeft, timg, mpc, got, lastRaw, rimg,
                 recoveries, stopAt, recLog>>

Thread ==
    \/ ThreadCheck \/ ThreadRead \/ ThreadRepairRelease \/ ThreadRepairInit
    \/ ThreadCooldown \/ ThreadPublish \/ ThreadSleep

Consumer == Construct \/ GetImg \/ ReleaseSignal \/ ReleaseJoin \/ ReleaseDevice


(***************************************************************************)
(* gl.py: scancodes of sdl2 used by the module.                            *)
(***************************************************************************)
SDL_SCANCODE_A == 4
SDL_SCANCODE_Z == 29
SDL_SCANCODE_1 == 30
SDL_SCANCODE_0 == 39
SDL_SCANCODE_RETURN == 40
SDL_SCANCODE_ESCAPE == 41
SDL_SCANCODE_BACKSPACE == 42
SDL_SCANCODE_TAB == 43
SDL_SCANCODE_SPACE == 44
SDL_SCANCODE_F1 == 58
SDL_SCANCODE_F2 == 59
SDL_SCANCODE_F3 == 60
SDL_SCANCODE_F4 == 61
SDL_SCANCODE_RIGHT == 79
SDL_SCANCODE_LEFT == 80
SDL_SCANCODE_DOWN == 81
SDL_SCANCODE_UP == 82

OrdLowerA == 97
OrdDigit1 == 49

special_keys_map ==
    (SDL_SCANCODE_RETURN :> 13) @@ (SDL_SCANCODE_ESCAPE :> 27) @@
    (SDL_SCANCODE_BACKSPACE :> 8) @@ (SDL_SCANCODE_TAB :> 9) @@
    (SDL_SCANCODE_SPACE :> 32) @@
    (SDL_SCANCODE_F1 :> 7340032) @@ (SDL_SCANCODE_F2 :> 7405568) @@
    (SDL_SCANCODE_F3 :> 7471104) @@ (SDL_SCANCODE_F4 :> 7536640) @@
    (SDL_SCANCODE_RIGHT :> 2555904) @@ (SDL_SCANCODE_LEFT :> 2424832) @@
    (SDL_SCANCODE_DOWN :> 2621440) @@ (SDL_SCANCODE_UP :> 2490368)

\* sdl_to_cv2_keycode: the code returned, or None when the function falls
\* off its end (the `pass` branch for -1).
sdl_to_cv2_keycode(sdl_keycode) ==
    IF SDL_SCANCODE_A <= sdl_keycode /\ sdl_keycode <= SDL_SCANCODE_Z
    THEN <<sdl_keycode - SDL_SCANCODE_A + OrdLowerA>>
    ELSE IF SDL_SCANCODE_1 <= sdl_keycode /\ sdl_keycode <= SDL_SCANCODE_0
    THEN <<sdl_keycode - SDL_SCANCODE_1 + OrdDigit1>>
    ELSE IF sdl_keycode \in DOMAIN special_keys_map
    THEN <<special_keys_map[sdl_keycode]>>
    ELSE IF sdl_keycode = -1
    THEN None
    ELSE <<-1>>

(***************************************************************************)
(* gl.py: the Renderer.                                                    *)
(***************************************************************************)
\* One entry of the call log: a GPU, interop or GL call and whether it
\* succeeded.
Call(r, op, ok) == [r EXCEPT !.calls = Append(@, <<op, ok>>)]

\* The stages of the interop upload, in the order gl_render issues them.
InteropStages == <<"map", "getarray", "copy", "unmap">>
StageError ==
    [map |-> "Unable to map graphics resource",
     getarray |-> "Unable to get mapped array",
     copy |-> "Unable to copy from tensor to texture",
     unmap |-> "Unable to unmap graphics resource"]

\* The value gl_render divides by: an element of this value is scaled to 1.
MaxPixel == 255

\* The images a caller passes to render: a type, a shape, and the value
\* every element of the image has.
ImageTypes == {"tensor_gpu", "tensor_cpu", "ndarray", "pil", "other"}
ImageShapes == {"hw3", "hw4", "hw", "hw5"}
Images ==
    {[type |-> "tensor_gpu", shape |-> s, value |-> MaxPixel] : s \in ImageShapes}
    \cup {[type |-> "ndarray", shape |-> "hw3", value |-> 128],
          [type |-> "ndarray", shape |-> "hw5", value |-> MaxPixel],
          [type |-> "tensor_cpu", shape |-> "hw4", value |-> 0],
          [type |-> "tensor_gpu", shape |-> "hw4", value |-> 300],
          [type |-> "pil", shape |-> "hw", value |-> MaxPixel],
          [type |-> "other", shape |-> "hw3", value |-> MaxPixel]}

NDims(shape) == IF shape = "hw" THEN 2 ELSE 3
NChannels(shape) == CASE shape = "hw3" -> 3 [] shape = "hw4" -> 4
                      [] shape = "hw5" -> 5 [] OTHER -> 0

\* image.shape of an image made for the Renderer's window.
Dims(shape) == IF NDims(shape) = 2 THEN <<TexH, TexW>>
               ELSE <<TexH, TexW, NChannels(shape)>>

\* torch.clamp(image.float() / 255, 0, 1) of one element, in units of
\* 1/MaxPixel.
Scaled(v) == IF v < 0 THEN 0 ELSE IF v > MaxPixel THEN MaxPixel ELSE v

\* Renderer.sdl_setup; fail names the SDL call that fails, if any.
sdl_setup(r, fail) ==
    IF fail = "sdl_init" \/ fail = "window"
    THEN Raise(r, "SDLException")
    ELSE [r EXCEPT !.sdl_window = "open", !.gl_context = "alive"]

\* Renderer.gl_setup: the shader program, the vertex array and the texture.
gl_setup(r) == [r EXCEPT !.tex = "allocated"]

\* cuda_setup without the test of cuda_is_setup: the texture is registered
\* on every call.
cuda_setup_again(r, fail) ==
    IF r.backend # "gl" THEN Raise(r, "AttributeError")
    ELSE IF fail = "sdl_init" THEN Raise(r, "SDLException")
    ELSE IF fail = "gl_devices"
    THEN Raise(r, "OpenGL context may be running on integrated graphics")
    ELSE IF fail = "register"
    THEN Raise(Call(r, "register", FALSE), "Unable to register opengl texture")
    ELSE [Call(r, "register", TRUE) EXCEPT
             !.registered = TRUE, !.nregister = @ + 1, !.cuda_is_setup = TRUE]

\* Renderer.cuda_setup; fail names the call that fails, if any. The
\* attribute cuda_is_setup exists on the GL backend only.
cuda_setup(r, fail) ==
    IF r.backend # "gl" THEN Raise(r, "AttributeError")
    ELSE IF r.cuda_is_setup THEN r
    ELSE IF fail = "sdl_init" THEN Raise(r, "SDLException")
    ELSE IF fail = "gl_devices"
    THEN Raise(r, "OpenGL context may be running on integrated graphics")
    ELSE IF fail = "register"
    THEN Raise(Call(r, "register", FALSE), "Unable to register opengl texture")
    ELSE [Call(r, "register", TRUE) EXCEPT
             !.registered = TRUE, !.nregister = @ + 1, !.cuda_is_setup = TRUE]

\* Renderer.__init__
RendererNew(r, ostype, fail) ==
    IF ostype = "Ubuntu"
    THEN LET r0 == [r EXCEPT !.backend = "gl", !.cuda_is_setup = FALSE,
                             !.running = TRUE]
             r1 == sdl_setup(r0, fail)
             r2 == IF r1.exc # NoExc THEN r1 ELSE gl_setup(r1)
         IN  IF r2.exc # NoExc THEN r2 ELSE cuda_setup(r2, fail)
    ELSE [r EXCEPT !.backend = "opencv"]

\* Renderer.gl_close
gl_close(r) ==
    [Call(r, "gl_close", r.gl_context = "alive") EXCEPT
        !.running = FALSE, !.gl_context = "deleted", !.sdl_window = "destroyed"]

\* What the GL library does with a call made when the context is deleted:
\* it drops the call, or the binding raises GLError.
DeadContextOutcomes == {"ignored", "GLError"}

\* Renderer.gl_draw_internal: the draw and the buffer swap, which succeed on
\* a live context only. On a deleted context the GL calls are issued all
\* the same; an error raised by them leaves the function before the swap.
gl_draw_internal(r, dead) ==
    LET r1 == Call(r, "draw", r.gl_context = "alive")
    IN  IF r.gl_context # "alive" /\ dead = "GLError" THEN Raise(r1, "GLError")
        ELSE Call(r1, "swap", r.sdl_window = "open")

SetMax(S) == CHOOSE x \in S : \A y \in S : y <= x

\* The body of `while SDL_PollEvent` in gl_step, for the events from the
\* i-th on. keys is the set of scancodes key_states reports as pressed; the
\* tracker array is compared, never assigned, so the key reported is the
\* last pressed scancode of the range.
RECURSIVE PollEvents(_, _, _, _, _)
PollEvents(r, events, keys, mouse, i) ==
    IF i > Len(events) THEN r
    ELSE LET r1 == [r EXCEPT !.ev.mouse_button_state = mouse.buttons,
                             !.ev.mouse_posX = mouse.y]
             r2 == IF events[i] = "close" THEN gl_close(r1) ELSE r1
         IN  IF SDL_SCANCODE_ESCAPE \in keys
             THEN Raise(gl_close(r2), "SystemExit")
             ELSE PollEvents(
                     IF keys # {} THEN [r2 EXCEPT !.ev.pressed_key_code = SetMax(keys)]
                     ELSE r2,
                     events, keys, mouse, i + 1)

\* Renderer.gl_step; the event it returns is left in ret.
gl_step(r, events, keys, mouse, dead) ==
    LET r0 == [r EXCEPT !.ev = [pressed_key_code |-> -1, mouse_button_state |-> -1,
                                mouse_posX |-> 0, mouse_posY |-> 0]]
        r1 == IF r0.running
              THEN LET p == PollEvents(r0, events, keys, mouse, 1)
                   IN  IF p.exc # NoExc THEN p ELSE gl_draw_internal(p, dead)
              ELSE r0
    IN  IF r1.exc # NoExc THEN r1
        ELSE [r1 EXCEPT !.ret =
                 [kind |-> "event", keycode |-> -1,
                  pressed_key_code |-> sdl_to_cv2_keycode(r1.ev.pressed_key_code),
                  mouse_button_state |-> r1.ev.mouse_button_state,
                  mouse_posX |-> r1.ev.mouse_posX,
                  mouse_posY |-> r1.ev.mouse_posY]]

\* The first part of gl_render (lines 305-340): the type dispatch with the
\* transfer to the GPU, the scaling, the transposition and the channel check.
\* The buffer it leaves in buf is the tensor handed to the upload: its
\* shape and the elements of one pixel, in units of 1/MaxPixel.
gl_normalize(r, image) ==
    LET r1 == IF image.type = "tensor_gpu" THEN r
              ELSE IF image.type \in {"tensor_cpu", "ndarray", "pil"}
              THEN Call(r, "to_device", TRUE)
              ELSE Raise(r, "render function received input of unknown type")
        v == Scaled(image.value)
        d == Dims(image.shape)
    IN  IF r1.exc # NoExc THEN r1
        ELSE IF NDims(image.shape) # 3
        THEN Raise(r1, "permute: number of dims don't match")
        ELSE IF NChannels(image.shape) = 3
        THEN [r1 EXCEPT !.buf = <<[dims |-> <<d[2], d[1], 4>>,
                                   pixel |-> <<v, v, v, MaxPixel>>]>>]
        ELSE IF NChannels(image.shape) = 4
        THEN [r1 EXCEPT !.buf = <<[dims |-> <<d[2], d[1], 4>>,
                                   pixel |-> <<v, v, v, v>>]>>]
        ELSE IF NDims(image.shape) = 2
        THEN \* line 337-338; not reached, the permute raised on a 2-D tensor
             [r1 EXCEPT !.buf = <<[dims |-> <<d[2], 4 * d[1]>>, pixel |-> <<v>>]>>]
        ELSE Raise(r1, "render function received the wrong number of channels")

\* One interop call of gl_render: stage is issued, and fails when fail
\* names it.
IssueStage(r, stage, fail) ==
    LET ok == fail # stage
        r1 == Call(r, stage, ok)
        r2 == IF ~ok THEN Raise(r1, StageError[stage]) ELSE r1
    IN  IF stage = "map" /\ ok THEN [r2 EXCEPT !.mapped = TRUE]
        ELSE IF stage = "unmap" /\ ok THEN [r2 EXCEPT !.mapped = FALSE]
        ELSE r2

\* Upload with the error checks dropped: every stage is issued whatever
\* the one before it returned.
RECURSIVE UploadUnchecked(_, _, _)
UploadUnchecked(r, fail, i) ==
    IF i > Len(InteropStages) THEN r
    ELSE UploadUnchecked(IssueStage(r, InteropStages[i], fail), fail, i + 1)

\* Lines 347-369 of gl_render: the stages from the i-th on, each issued
\* only when the one before it succeeded.
RECURSIVE Upload(_, _, _)
Upload(r, fail, i) ==
    IF i > Len(InteropStages) \/ r.exc # NoExc THEN r
    ELSE Upload(IssueStage(r, InteropStages[i], fail), fail, i + 1)

\* Renderer.gl_render
gl_render(r, image, fail, events, keys, mouse, dead) ==
    LET r1 == gl_normalize(r, image)
    IN  IF r1.exc # NoExc THEN r1
        ELSE IF ~r1.running THEN [r1 EXCEPT !.ret = [kind |-> "None"]]
        ELSE LET r2 == IF ~r1.cuda_is_setup THEN cuda_setup(r1, fail) ELSE r1
                 r3 == IF r2.exc # NoExc THEN r2 ELSE Upload(r2, fail, 1)
             IN  IF r3.exc # NoExc THEN r3
                 ELSE gl_step(r3, events, keys, mouse, dead)

\* Renderer.cv2_render; key is what cv2.waitKey returns.
cv2_render(r, image, key) ==
    IF image.type = "other"
    THEN Raise(r, "render function received input of unknown type")
    ELSE LET r1 == Call(r, "imshow", TRUE)
         IN  IF key = 27 THEN Raise(Call(r1, "destroyAllWindows", TRUE), "SystemExit")
             ELSE [r1 EXCEPT !.ret =
                      [kind |-> "event", keycode |-> -1, pressed_key_code |-> <<key>>,
                       mouse_button_state |-> -1, mouse_posX |-> -1, mouse_posY |-> -1]]

\* Renderer.render
render(r, image, fail, events, keys, mouse, dead, key) ==
    IF r.backend = "gl" THEN gl_render(r, image, fail, events, keys, mouse, dead)
    ELSE cv2_render(r, image, key)

\* What a caller can observe and inject.
SetupFailures == {"none", "sdl_init", "window", "gl_devices", "register"}
UploadFailures == {"none", "map", "getarray", "copy", "unmap"}
EventKinds == {"close", "other"}
EventSeqs == UNION {[1..n -> EventKinds] : n \in 0..MaxEvents}
KeySets == {{}, {SDL_SCANCODE_A}, {SDL_SCANCODE_A, SDL_SCANCODE_1}, {SDL_SCANCODE_ESCAPE}}
MouseStates == {[buttons |-> 0, x |-> 1, y |-> 2], [buttons |-> 1, x |-> 2, y |-> 1]}
WaitKeys == {-1, 27, 97}

RendererInit ==
    [phase |-> "new", backend |-> "none", running |-> FALSE, cuda_is_setup |-> FALSE,
     sdl_window |-> "none", gl_context |-> "none", tex |-> "none",
     registered |-> FALSE, nregister |-> 0, mapped |-> FALSE,
     nrender |-> 0, op |-> "none", arg |-> None, buf |-> None,
     calls |-> <<>>, exc |-> NoExc, ret |-> [kind |-> "none"],
     ev |-> [pressed_key_code |-> -1, mouse_button_state |-> -1,
             mouse_posX |-> 0, mouse_posY |-> 0]]

\* Where a call leaves the Renderer: an exception out of the constructor
\* leaves no object, SystemExit ends the process.
AfterCall(r) ==
    [r EXCEPT !.phase = IF r.exc = "SystemExit" THEN "exited"
                        ELSE IF r.phase = "new" /\ r.exc # NoExc THEN "failed"
                        ELSE "ready"]

GLInit ==
    /\ app = None
    /\ os \in OsTypes
    /\ rend = RendererInit
    /\ CamIdle

\* Renderer(...)
NewRenderer ==
    /\ rend.phase = "new"
    /\ \E fail \in SetupFailures :
          rend' = AfterCall(RendererNew([rend EXCEPT !.op = "__init__"], os, fail))
    /\ UNCHANGED <<app, os, camvars>>

\* renderer.render(image)
Render ==
    /\ rend.phase = "ready"
    /\ rend.nrender < MaxRenders
    /\ \E image \in Images,
          fail \in (IF rend.backend = "gl" THEN UploadFailures ELSE {"none"}),
          events \in (IF rend.backend = "gl" THEN EventSeqs ELSE {<<>>}),
          keys \in (IF rend.backend = "gl" THEN KeySets ELSE {{}}),
          mouse \in (IF rend.backend = "gl" THEN MouseStates
                     ELSE {[buttons |-> 0, x |-> 1, y |-> 2]}),
          key \in (IF rend.backend = "gl" THEN {-1} ELSE WaitKeys) :
       \E dead \in (IF \E i \in 1..Len(events) : events[i] = "close"
                    THEN DeadContextOutcomes ELSE {"ignored"}) :
          rend' = AfterCall(render(
                     [rend EXCEPT !.op = "render", !.arg = <<image>>, !.buf = None,
                                  !.calls = <<>>, !.exc = NoExc,
                                  !.ret = [kind |-> "none"], !.nrender = @ + 1],
                     image, fail, events, keys, mouse, dead, key))
    /\ UNCHANGED <<app, os, camvars>>

\* renderer.cuda_setup()
CudaSetup ==
    /\ rend.phase = "ready"
    /\ \E fail \in SetupFailures :
          rend' = AfterCall(cuda_setup(
                     [rend EXCEPT !.op = "cuda_setup", !.arg = None, !.buf = None,
                                  !.calls = <<>>, !.exc = NoExc,
                                  !.ret = [kind |-> "none"]],
                     fail))
    /\ UNCHANGED <<app, os, camvars>>

GLNext == NewRenderer \/ Render \/ CudaSetup

vars == <<app, os, rend, camvars>>

GLSpec == GLInit /\ [][GLNext]_vars

CamStart ==
    /\ app = None
    /\ os \in OsTypes
    /\ rend = RendererInit
    /\ CamInit

CamNext == Consumer \/ Thread

CamSpec == CamStart /\ [][CamNext]_vars

(***************************************************************************)
(* sdl_to_cv2_keycode applied on its own.                                  *)
(***************************************************************************)
\* sdl2.SDL_NUM_SCANCODES
SDL_NUM_SCANCODES == 512

\* What gl_step passes: a scancode, or -1 when no key was seen.
KeycodeArgs == -1..(SDL_NUM_SCANCODES - 1)

KeyInit ==
    /\ app \in {[arg |-> k, done |-> FALSE, out |-> None] : k \in KeycodeArgs}
    /\ os \in OsTypes
    /\ rend = RendererInit
    /\ CamIdle

\* sdl_to_cv2_keycode(sdl_keycode)
ApplyKeycode ==
    /\ ~app.done
    /\ app' = [app EXCEPT !.done = TRUE, !.out = sdl_to_cv2_keycode(app.arg)]
    /\ UNCHANGED <<os, rend, camvars>>

KeySpec == KeyInit /\ [][ApplyKeycode]_vars

(***************************************************************************)
(* process_raw_image applied on its own, with any setting of the two       *)
(* toggles.                                                                *)
(***************************************************************************)
\* Raw frames of every height and width up to the configured shape.
Crop(img, h, w) == [r \in 1..h |-> [c \in 1..w |-> img[r][c]]]
FlipFrames ==
    {Crop(RawFrame(v), h, w) : v \in 1..NumFrames, h \in 1..FrameH, w \in 1..FrameW}

FlipInit ==
    /\ app \in {[arg |-> [shift_colors |-> s, do_mirror |-> m, img |-> f],
                  done |-> FALSE, out |-> None] :
                      s \in BOOLEAN, m \in BOOLEAN, f \in FlipFrames}
    /\ os \in OsTypes
    /\ rend = RendererInit
    /\ CamIdle

\* self.process_raw_image(img) on an object with the toggles of the
\* argument
ApplyProcess ==
    /\ ~app.done
    /\ app' = [app EXCEPT !.done = TRUE,
                          !.out = process_raw_image(app.arg, app.arg.img)]
    /\ UNCHANGED <<os, rend, camvars>>

FlipSpec == FlipInit /\ [][ApplyProcess]_vars

(***************************************************************************)
(* Claims about the interop upload of gl_render.                           *)
(***************************************************************************)
\* The interop calls of the latest render call, in the order issued.
InteropCalls ==
    SelectSeq(rend.calls, LAMBDA c : c[1] \in {"map", "getarray", "copy", "unmap"})

CountCalls(op) == Cardinality({i \in 1..Len(rend.calls) : rend.calls[i][1] = op})

\* C1: whenever the map of a render call succeeded, that call issued
\* cudaGraphicsUnmapResources exactly once before it returned or raised.
C1_UnmapOnceAfterMap ==
    (\E i \in 1..Len(rend.calls) : rend.calls[i] = <<"map", TRUE>>)
        => CountCalls("unmap") = 1

\* C2: the interop calls of a render call are an initial part of map,
\* get-mapped-array, copy, unmap, each issued once and only after the one
\* before it succeeded; a call that reached the upload and met no failure
\* issued all four; a failed stage is the last one issued and the error
\* raised names it.
C2_StrictOrder ==
    LET io == InteropCalls
        n == Len(io)
    IN  /\ n <= Len(InteropStages)
        /\ \A i \in 1..n : /\ io[i][1] = InteropStages[i]
                            /\ i < n => io[i][2]
        /\ (n > 0 /\ ~io[n][2]) => rend.exc = StageError[io[n][1]]
        /\ (n > 0 /\ io[n][2]) => n = Len(InteropStages)

\* A render call whose map failed: the one interop call issued is the map,
\* and the error names it.
C2_Witness ==
    /\ InteropCalls = << <<"map", FALSE>> >>
    /\ rend.exc = "Unable to map graphics resource"

(***************************************************************************)
(* Claims about the capture service.                                       *)
(***************************************************************************)
Elems(seq) == {seq[i] : i \in 1..Len(seq)}

\* The frame a reader must see: the processed frame of the latest publish,
\* the all-zero frame before the first one.
Latest == IF lastRaw = None THEN Zeros ELSE process_raw_image(wc, lastRaw)

ReadFailed == rimg = None \/ ImgSize(rimg) < MinImgSize

\* The platform has an acquisition procedure, and the device the selector
\* names is there and delivers frames.
DeviceWorks ==
    IF os = "Ubuntu"
    THEN /\ Len(wc.enumerated) > 0
         /\ Elems(wc.enumerated) \subseteq good
         /\ wc.cam_id \in {-1} \cup Elems(wc.enumerated)
    ELSE os = "MacOS" /\ wc.cam_id \in good

\* C3: with a device that delivers frames, apart from a failed read, the
\* capture loop is RUNNING whenever device acquisition has ended, in the
\* constructor or in a recovery, and no stop was asked for: acquisition
\* raised nothing, the capture thread is alive and threader_active is true.
C3_RecoveryKeepsRunning ==
    (DeviceWorks /\ mpc \in {"failed", "idle"})
        => /\ mpc = "idle"
           /\ wc.exc = NoExc
           /\ wc.thread = "running"
           /\ wc.threader_active

\* C4: whenever the capture thread is about to read, every handle opened so
\* far is released, except the one held in self.cam: at most one handle is
\* open, however many recoveries came before.
C4_NoHandleLeak ==
    tpc = "read" => (wc.hopen \subseteq {wc.cam} /\ Cardinality(wc.hopen) <= 1)

\* Reads resumed after the recovery was hit RecCap times, one handle open.
C4_Witness ==
    /\ tpc = "read"
    /\ recoveries = RecCap
    /\ wc.hopen = {wc.cam}

\* C5: once release() has begun, threader_active is false; release() gets
\* past its join, to releasing the device and to returning, only with the
\* capture thread ended; and no step writes img_last after it returned.
C5_StopOrder ==
    [][/\ mpc' \in {"join", "device", "released"} => ~wc'.threader_active
       /\ mpc' \in {"device", "released"} => (wc'.thread = "finished" /\ tpc' = "done")
       /\ (mpc = "device" /\ mpc' = "released") => wc.thread = "finished"
       /\ mpc = "released" => wc'.img_last = wc.img_last]_vars

\* release() begun while a read was in flight has returned: the frame of
\* that read was published, the thread has ended, the device is released.
C5_Witness ==
    /\ mpc = "released"
    /\ stopAt = "publish"
    /\ lastRaw # None
    /\ wc.thread = "finished"
    /\ wc.hopen = {}

\* C6: every get_img call returns the processed raw frame of the latest
\* publish (the initial frame before the first), and changes nothing of
\* the object or of the capture thread.
C6_LatestFrame ==
    [][GetImg => (got' = Latest /\ UNCHANGED <<wc, tpc, timg, lastRaw>>)]_vars

\* get_img has returned the processed second raw frame.
C6_Witness ==
    /\ lastRaw = RawFrame(2)
    /\ got = process_raw_image(wc, RawFrame(2))
    /\ got # RawFrame(2)

\* C7: from a read that returned a null or too small image until the next
\* read, img_last is not written, and a get_img call made meanwhile
\* returns the frame of the latest publish, never a missing value.
C7_FailedReadKeepsFrame ==
    [][ReadFailed => /\ wc'.img_last = wc.img_last
                     /\ GetImg => (got' = Latest /\ got' # None)]_vars

\* get_img answered the published frame in the cooldown that follows the
\* read of a too small image.
C7_Witness ==
    /\ tpc = "cooldown"
    /\ rimg = SmallImg
    /\ lastRaw # None
    /\ got = process_raw_image(wc, lastRaw)

\* C8: with cam_id = -1 and the devices 0 and 1 enumerated, of which only
\* device 1 delivers, the constructor ends without an error with the
\* capture thread running, threader_active true and self.cam on device 1.
C8_FirstAvailableSkipsDeadDevice ==
    (wc.cam_id = -1 /\ wc.enumerated = <<0, 1>> /\ good = {1}
        /\ mpc \in {"failed", "idle"})
        => /\ mpc = "idle"
           /\ wc.exc = NoExc
           /\ wc.thread = "running"
           /\ wc.threader_active
           /\ wc.cam \in wc.hopen
           /\ wc.hdev[wc.cam] = 1

\* C9: with cam_id = -1, once init_ubuntu has ended the devices it
\* configured and read are the enumerated paths in their order, from the
\* first one on.
C9_CandidatesInOrder ==
    (wc.cam_id = -1 /\ Len(wc.enumerated) > 0 /\ mpc \in {"failed", "idle"})
        => /\ Len(wc.tried) \in 1..Len(wc.enumerated)
           /\ \A i \in 1..Len(wc.tried) : wc.tried[i] = wc.enumerated[i]

\* C10: with cam_id = -1 and no enumerated device delivering, init_ubuntu
\* ends with an error only once every enumerated device was tried.
C10_FatalOnExhaustion ==
    (wc.cam_id = -1 /\ Len(wc.enumerated) > 0 /\ Elems(wc.enumerated) \cap good = {}
        /\ mpc = "failed")
        => Elems(wc.enumerated) \subseteq Elems(wc.tried)
(***************************************************************************)
(* Claims about the input of gl_render.                                    *)
(***************************************************************************)
\* The latest call was a render call on the GL backend, and it is over.
GLRenderDone ==
    /\ rend.op = "render"
    /\ rend.backend = "gl"
    /\ rend.phase \in {"ready", "exited"}

UnsupportedInput ==
    /\ rend.arg # None
    /\ \/ rend.arg[1].type = "other"
       \/ rend.arg[1].shape \notin {"hw3", "hw4", "hw"}

\* C11: a render call on the GL backend whose image has an unsupported type
\* or a shape other than (H,W,3), (H,W,4), (H,W) raises, and has made no
\* GPU call at all: no transfer to the device, no register, map,
\* get-mapped-array, copy or unmap.
C11_RejectBeforeGPU ==
    (GLRenderDone /\ UnsupportedInput)
        => /\ rend.exc # NoExc
           /\ rend.calls = <<>>

\* C12: a render call on the GL backend with a 2-D grayscale image (H,W) of
\* a supported type gets through the normalization without error, and the
\* buffer handed to the upload has 4 channels, each the scaled input (an
\* all-255 image gives pixels [1, 1, 1, 1]).
C12_GrayscaleToRGBA ==
    (GLRenderDone /\ rend.arg # None /\ rend.arg[1].shape = "hw"
                  /\ rend.arg[1].type # "other")
        => /\ rend.exc \notin {"permute: number of dims don't match",
                               "render function received the wrong number of channels"}
           /\ rend.buf # None
           /\ Len(rend.buf[1].dims) = 3
           /\ rend.buf[1].dims[3] = 4
           /\ rend.buf[1].pixel = [k \in 1..4 |-> Scaled(rend.arg[1].value)]

(***************************************************************************)
(* Claims about the event a render call returns.                           *)
(***************************************************************************)
\* C13: the event of a render call on the GL backend that observed no key
\* press has the pressed-key code -1, and never None.
C13_NoKeyIsMinusOne ==
    (GLRenderDone /\ rend.ret.kind = "event" /\ rend.ev.pressed_key_code = -1)
        => rend.ret.pressed_key_code = <<-1>>

\* The latest call was a render call, and it returned normally.
RenderReturned ==
    /\ rend.op = "render"
    /\ rend.phase = "ready"
    /\ rend.exc = NoExc

\* C14: every render call that returns normally returns one event, also
\* after a window-close event was handled; the only path that does not
\* return is Escape.
C14_ReturnsOneEvent == RenderReturned => rend.ret.kind = "event"

(***************************************************************************)
(* Claims about the interop registration of the texture.                   *)
(***************************************************************************)
\* A Renderer on the GL backend whose constructor returned.
GLRenderer ==
    /\ rend.backend = "gl"
    /\ rend.phase \in {"ready", "exited"}

\* The texture of a constructed Renderer has been registered exactly once,
\* and no call registers it after a map.
RegisteredOnce ==
    GLRenderer => /\ rend.nregister = 1
                  /\ rend.registered
                  /\ \A i, j \in 1..Len(rend.calls) :
                        (rend.calls[i][1] = "map" /\ rend.calls[j][1] = "register")
                            => j < i

\* C15 as stated: the texture is registered exactly once over construction,
\* cuda_setup calls and render calls, before the first map, and a
\* cuda_setup call on an already registered texture is reported as an error.
C15_ReRegisterIsError ==
    /\ RegisteredOnce
    /\ (GLRenderer /\ rend.op = "cuda_setup") => rend.exc # NoExc

\* C15, amended: the texture is registered exactly once, in the
\* constructor and so before the first map; a later cuda_setup call
\* returns normally without any call to the interop layer.
C15_RegisteredOnce ==
    /\ RegisteredOnce
    /\ (GLRenderer /\ rend.op = "cuda_setup")
           => (rend.exc = NoExc /\ rend.calls = <<>>)

\* cuda_setup was called after a render call that mapped the texture.
C15_Witness ==
    /\ GLRenderer
    /\ rend.op = "cuda_setup"
    /\ rend.nrender > 0
    /\ rend.nregister = 1
    /\ rend.exc = NoExc

\* C16: whenever the GL context is destroyed, the interop registration of
\* the texture has been unregistered before: no state has a deleted
\* context and a texture still registered.
C16_UnregisterBeforeClose ==
    rend.gl_context = "deleted" => ~rend.registered

(***************************************************************************)
(* Claims about the frame buffer before the first publish.                 *)
(***************************************************************************)
\* img is an array of shape (shape_hw[0], shape_hw[1], 3) of zeros.
ZeroFrame(img) ==
    /\ Len(img) = FrameH
    /\ \A r \in 1..FrameH :
          /\ Len(img[r]) = FrameW
          /\ \A c \in 1..FrameW : img[r][c] = <<0, 0, 0>>

\* C17: a get_img call made before any frame has been published returns an
\* all-zero frame of shape (shape_hw[0], shape_hw[1], 3).
C17_ZeroFrameBeforePublish ==
    [][(GetImg /\ lastRaw = None) => ZeroFrame(got')]_vars

\* get_img has returned while the capture thread runs and has published
\* nothing yet.
C17_Witness ==
    /\ lastRaw = None
    /\ got # None
    /\ ZeroFrame(got)
    /\ tpc \in {"read", "publish", "repair"}

(***************************************************************************)
(* Claims about the order of the recovery.                                 *)
(***************************************************************************)
IsPrefix(s, t) == Len(s) <= Len(t) /\ \A i \in 1..Len(s) : s[i] = t[i]

\* C18 as stated: after a failed read the capture loop releases the handle,
\* then waits the cooldown, then runs smart_init, and then reads again; the
\* cooldown is never taken after the device was reopened.
C18_CooldownBeforeInit ==
    IsPrefix(recLog, <<"release", "cooldown", "acquire", "read">>)

\* C18, amended: after a failed read the capture loop releases the handle,
\* then runs smart_init, then waits the cooldown, and then reads again; the
\* cooldown is taken only after the device was reopened.
C18_InitBeforeCooldown ==
    /\ IsPrefix(recLog, <<"release", "acquire", "cooldown", "read">>)
    /\ tpc = "reinit" => recLog = <<"release">>
    /\ tpc = "cooldown" => (recLog = <<"release", "acquire">> /\ wc.exc = NoExc)

\* A recovery ran to its end and the loop has read again.
C18_Witness ==
    /\ recLog = <<"release", "acquire", "cooldown", "read">>
    /\ recoveries > 0

(***************************************************************************)
(* Claims about the key code conversion.                                   *)
(***************************************************************************)
\* C19: sdl_to_cv2_keycode maps the scancodes of A..Z to the codes of the
\* lowercase letters a..z, the scancodes of the digit keys 1..9 and 0 to the
\* character code of the same digit, and Return, Escape, Backspace, Tab and
\* Space to 13, 27, 8, 9 and 32.
C19_KeycodeTable ==
    app.done =>
        LET k == app.arg
        IN  /\ (SDL_SCANCODE_A <= k /\ k <= SDL_SCANCODE_Z)
                  => app.out = <<97 + (k - SDL_SCANCODE_A)>>
            /\ (SDL_SCANCODE_1 <= k /\ k < SDL_SCANCODE_0)
                  => app.out = <<49 + (k - SDL_SCANCODE_1)>>
            /\ k = SDL_SCANCODE_0 => app.out = <<48>>
            /\ k = SDL_SCANCODE_RETURN => app.out = <<13>>
            /\ k = SDL_SCANCODE_ESCAPE => app.out = <<27>>
            /\ k = SDL_SCANCODE_BACKSPACE => app.out = <<8>>
            /\ k = SDL_SCANCODE_TAB => app.out = <<9>>
            /\ k = SDL_SCANCODE_SPACE => app.out = <<32>>

(***************************************************************************)
(* Claims about the post-processing of a raw frame.                        *)
(***************************************************************************)
\* out is img with the columns reversed when mirror, and the channels of
\* every pixel reversed when shift.
Flipped(out, img, shift, mirror) ==
    /\ Len(out) = Len(img)
    /\ \A r \in 1..Len(img) :
          /\ Len(out[r]) = Len(img[r])
          /\ \A c \in 1..Len(img[r]) :
                /\ Len(out[r][c]) = 3
                /\ \A k \in 1..3 :
                      out[r][c][k] =
                          img[r][IF mirror THEN Len(img[r]) + 1 - c ELSE c]
                                [IF shift THEN 4 - k ELSE k]

\* C20: process_raw_image returns the frame with the channel order reversed
\* when shift_colors is set and the column order reversed when do_mirror is
\* set: the raw frame itself when both are off, and with both on the same
\* frame whichever flip is taken first; the raw frame is left as it was.
C20_ProcessRawImage ==
    [][ApplyProcess =>
          LET a == app.arg
              out == app'.out
          IN  /\ app'.arg = a
              /\ Flipped(out, a.img, a.shift_colors, a.do_mirror)
              /\ (~a.shift_colors /\ ~a.do_mirror) => out = a.img
              /\ (a.shift_colors /\ a.do_mirror)
                    => /\ out = FlipColumns(FlipChannels(a.img))
                       /\ out = FlipChannels(FlipColumns(a.img))]_vars

\* A frame of the configured shape has been processed with both toggles
\* set.
C20_Witness ==
    /\ app # None
    /\ app.done
    /\ app.arg.shift_colors /\ app.arg.do_mirror
    /\ app.arg.img \in RawFrames
    /\ app.out # app.arg.img

(***************************************************************************)
(* Claims about the torn-down presentation surface.                        *)
(***************************************************************************)
SurfaceCalls == {"draw", "swap", "map", "getarray", "copy", "unmap", "gl_close"}

\* C21: once gl_close has deleted the context and destroyed the window, no
\* draw, buffer swap or interop map, get-mapped-array, copy or unmap is
\* issued and gl_close is not invoked again: neither later in the call
\* that closed, whatever events were pending, nor in any later call.
C21_NothingAfterClose ==
    LET n == Len(rend.calls)
        closes == {i \in 1..n : rend.calls[i][1] = "gl_close"}
    IN  /\ \A i \in closes : \A j \in (i + 1)..n : rend.calls[j][1] \notin SurfaceCalls
        /\ (rend.gl_context = "deleted" /\ closes = {})
              => \A j \in 1..n : rend.calls[j][1] \notin SurfaceCalls

====
